---------------------------- MODULE Spec2Model ----------------------------
(***************************************************************************)
(* Model of the youtube-downloader repository: the metadata normaliser     *)
(* (main.normalize_metadata), the report builder (main.get_video_info),    *)
(* the process-wide playlist counter written by main.download_audio, and   *)
(* the playlist renderer of the chat bot (discord-bot.showmusic).          *)
(*                                                                         *)
(* A Python string is a sequence of one-character strings.  A Python value *)
(* is a tagged record: Absent (key missing from the dict), None, Str, List *)
(* (of strings) and Int.                                                   *)
(***************************************************************************)
EXTENDS Integers, Sequences, FiniteSets, TLC

(***************************************************************************)
(* Bounds of the model and constants of the program                        *)
(***************************************************************************)
\* longest free-form track / title string that Init enumerates
MaxLen == 3
\* number of times the match filter may run on one info dict
MaxCalls == 2
\* longest playlist handed to get_video_info
MaxEntries == 2
\* longest report handed to showmusic
MaxItems == 3
\* final_artist_list[:3]
ArtistCap == 3
\* the character budget of showmusic
Budget == 1900

(***************************************************************************)
(* Python values                                                           *)
(***************************************************************************)
Absent == [tag |-> "absent"]
None == [tag |-> "none"]
Str(s) == [tag |-> "str", s |-> s]
List(l) == [tag |-> "list", l |-> l]
IntVal(n) == [tag |-> "int", n |-> n]

\* bool(v): None, "", [] and 0 are falsy
Truthy(v) ==
    CASE v.tag = "str" -> v.s # <<>>
      [] v.tag = "list" -> v.l # <<>>
      [] v.tag = "int" -> v.n # 0
      [] OTHER -> FALSE

\* dict.get(key): a missing key reads as None
Get(v) == IF v = Absent THEN None ELSE v

\* dict.get(key, default)
GetDefault(v, default) == IF v = Absent THEN default ELSE v

(***************************************************************************)
(* Python string operations                                                *)
(***************************************************************************)
UpperChars == <<"A","B","C","D","E","F","G","H","I","J","K","L","M",
                "N","O","P","Q","R","S","T","U","V","W","X","Y","Z">>
LowerChars == <<"a","b","c","d","e","f","g","h","i","j","k","l","m",
                "n","o","p","q","r","s","t","u","v","w","x","y","z">>

\* the characters str.strip() removes
Whitespace == {" ", "\t", "\n", "\r"}

\* the argument of lstrip(" -:|")
Separators == {" ", "-", ":", "|"}

LowerChar(c) ==
    IF \E i \in 1..26 : UpperChars[i] = c
    THEN LowerChars[CHOOSE i \in 1..26 : UpperChars[i] = c]
    ELSE c

\* str.lower()
Lower(s) == [i \in 1..Len(s) |-> LowerChar(s[i])]

\* s[n:]
Drop(s, n) == IF n >= Len(s) THEN <<>> ELSE SubSeq(s, n + 1, Len(s))

\* s[:n]
Take(s, n) == IF n >= Len(s) THEN s ELSE SubSeq(s, 1, n)

\* str.startswith(p)
StartsWith(s, p) == Len(p) <= Len(s) /\ SubSeq(s, 1, Len(p)) = p

\* str.lstrip(chars)
RECURSIVE LStrip(_, _)
LStrip(s, chars) ==
    IF s # <<>> /\ Head(s) \in chars THEN LStrip(Tail(s), chars) ELSE s

\* str.rstrip(chars)
RECURSIVE RStrip(_, _)
RStrip(s, chars) ==
    IF s # <<>> /\ s[Len(s)] \in chars
    THEN RStrip(SubSeq(s, 1, Len(s) - 1), chars)
    ELSE s

\* str.strip()
Strip(s) == RStrip(LStrip(s, Whitespace), Whitespace)

\* str.split(sep) with a one-character separator
RECURSIVE SplitFrom(_, _, _)
SplitFrom(s, sep, cur) ==
    IF s = <<>> THEN <<cur>>
    ELSE IF Head(s) = sep THEN <<cur>> \o SplitFrom(Tail(s), sep, <<>>)
    ELSE SplitFrom(Tail(s), sep, Append(cur, Head(s)))

Split(s, sep) == SplitFrom(s, sep, <<>>)

\* sep.join(parts)
RECURSIVE Join(_, _)
Join(sep, parts) ==
    IF parts = <<>> THEN <<>>
    ELSE IF Len(parts) = 1 THEN parts[1]
    ELSE parts[1] \o sep \o Join(sep, Tail(parts))

DigitChars == <<"0","1","2","3","4","5","6","7","8","9">>

\* str(n) for an int n >= 0
RECURSIVE Digits(_)
Digits(n) ==
    IF n < 10 THEN <<DigitChars[n + 1]>>
    ELSE Digits(n \div 10) \o <<DigitChars[(n % 10) + 1]>>

\* repr of a list of plain strings: ['a', 'b']
ListRepr(l) ==
    <<"[">> \o Join(<<",", " ">>, [i \in 1..Len(l) |-> <<"'">> \o l[i] \o <<"'">>])
            \o <<"]">>

\* str(v)
PyStr(v) ==
    CASE v.tag = "str" -> v.s
      [] v.tag = "int" -> Digits(v.n)
      [] v.tag = "list" -> ListRepr(v.l)
      [] OTHER -> <<"N","o","n","e">>

UnknownArtist == <<"U","n","k","n","o","w","n"," ","A","r","t","i","s","t">>
UnknownTrack == <<"U","n","k","n","o","w","n"," ","T","r","a","c","k">>
UnknownTitle == <<"U","n","k","n","o","w","n"," ","T","i","t","l","e">>
UnknownPlaylist ==
    <<"U","n","k","n","o","w","n"," ","P","l","a","y","l","i","s","t">>

\* the separator of " & ".join(final_artist_list)
ArtistSep == <<" ", "&", " ">>

(***************************************************************************)
(* main.normalize_metadata                                                 *)
(***************************************************************************)
\* raw_artist = info.get('artist'), falling back to info.get('uploader')
RawArtist(info) ==
    IF Truthy(Get(info.artist)) THEN Get(info.artist) ELSE Get(info.uploader)

\* parts: a string is split on commas, a list is taken as it is, anything
\* else is one stringified candidate
ArtistParts(raw_artist) ==
    CASE raw_artist.tag = "str" -> Split(raw_artist.s, ",")
      [] raw_artist.tag = "list" -> raw_artist.l
      [] OTHER -> <<PyStr(raw_artist)>>

\* CleanDedup with names compared as written: seen.add(clean_p)
RECURSIVE CleanDedupCaseSensitive(_, _, _)
CleanDedupCaseSensitive(parts, final_artist_list, seen) ==
    IF parts = <<>> THEN final_artist_list
    ELSE LET clean_p == Strip(Head(parts))
         IN  IF clean_p # <<>> /\ clean_p \notin seen
             THEN CleanDedupCaseSensitive(Tail(parts),
                      Append(final_artist_list, clean_p), seen \cup {clean_p})
             ELSE CleanDedupCaseSensitive(Tail(parts), final_artist_list, seen)

\* the loop over parts: clean, skip empties and names already seen
RECURSIVE CleanDedup(_, _, _)
CleanDedup(parts, final_artist_list, seen) ==
    IF parts = <<>> THEN final_artist_list
    ELSE LET clean_p == Strip(Head(parts))
         IN  IF clean_p # <<>> /\ Lower(clean_p) \notin seen
             THEN CleanDedup(Tail(parts), Append(final_artist_list, clean_p),
                             seen \cup {Lower(clean_p)})
             ELSE CleanDedup(Tail(parts), final_artist_list, seen)

\* final_artist_list after the [:3] cut
FinalArtistList(info) ==
    LET raw_artist == RawArtist(info)
    IN  IF Truthy(raw_artist)
        THEN Take(CleanDedup(ArtistParts(raw_artist), <<>>, {}), ArtistCap)
        ELSE <<>>

\* final_artist
FinalArtist(info) ==
    LET final_artist_list == FinalArtistList(info)
    IN  IF final_artist_list = <<>> THEN UnknownArtist
        ELSE Join(ArtistSep, final_artist_list)

\* current_track before the duplicate-artist logic
StartingTrack(info) ==
    IF Truthy(Get(info.track)) THEN Get(info.track)
    ELSE GetDefault(info.title, Str(UnknownTrack))

\* norm_track.startswith(norm_artist), guarded by the sentinel test
ArtistIsPrefix(final_artist, current_track) ==
    /\ final_artist # <<>>
    /\ final_artist # UnknownArtist
    /\ StartsWith(Lower(PyStr(current_track)), Lower(final_artist))

\* CleanedTrack with the whitespace around the result removed as well:
\* current_track[len(final_artist):].lstrip(" -:|").strip()
CleanedTrackStripped(final_artist, current_track) ==
    Strip(LStrip(Drop(current_track.s, Len(final_artist)), Separators))

\* cleaned_track = current_track[len(final_artist):].lstrip(" -:|")
CleanedTrack(final_artist, current_track) ==
    LStrip(Drop(current_track.s, Len(final_artist)), Separators)

\* the value written to info['track'] when current_track is a string
FinalTrack(final_artist, current_track) ==
    IF ArtistIsPrefix(final_artist, current_track)
       /\ Strip(CleanedTrack(final_artist, current_track)) # <<>>
    THEN Str(CleanedTrack(final_artist, current_track))
    ELSE current_track

\* slicing an int or None raises TypeError; a sliced list has no lstrip
SliceRaises(final_artist, current_track) ==
    ArtistIsPrefix(final_artist, current_track) /\ current_track.tag # "str"

\* One call of normalize_metadata on the dict info: the dict as the call
\* leaves it and whether the call raised.  info['artist'] is assigned before
\* the track is examined, so it is written even when the call raises.
normalize_metadata(info) ==
    LET final_artist == FinalArtist(info)
        current_track == StartingTrack(info)
        with_artist == [info EXCEPT !.artist = Str(final_artist)]
    IN  IF SliceRaises(final_artist, current_track)
        THEN [info |-> with_artist, raised |-> TRUE]
        ELSE [info |-> [with_artist EXCEPT
                            !.track = FinalTrack(final_artist, current_track)],
              raised |-> FALSE]

(***************************************************************************)
(* main.get_video_info: the items it builds                                *)
(***************************************************************************)
\* track_title = temp_info.get('track') or temp_info.get('title', 'Unknown Title')
TrackTitle(temp_info) ==
    IF Truthy(Get(temp_info.track)) THEN Get(temp_info.track)
    ELSE GetDefault(temp_info.title, Str(UnknownTitle))

\* artist_name = temp_info.get('artist') or temp_info.get('uploader', 'Unknown Artist')
ArtistName(temp_info) ==
    IF Truthy(Get(temp_info.artist)) THEN Get(temp_info.artist)
    ELSE GetDefault(temp_info.uploader, Str(UnknownArtist))

\* info.get('title', 'Unknown Playlist')
PlaylistTitle(playlist_info) == GetDefault(playlist_info.title, Str(UnknownPlaylist))

\* PlaylistItem with the title of the entry in the place of the playlist's
PlaylistItemEntryTitle(temp_info, playlist_info, url) ==
    [artist |-> ArtistName(temp_info), title |-> TrackTitle(temp_info),
     is_playlist |-> TRUE,
     playlist_title |-> GetDefault(temp_info.title, Str(UnknownPlaylist)),
     original_url |-> url]

\* the dict appended for a playlist entry, from the normalised copy
PlaylistItem(temp_info, playlist_info, url) ==
    [artist |-> ArtistName(temp_info), title |-> TrackTitle(temp_info),
     is_playlist |-> TRUE, playlist_title |-> PlaylistTitle(playlist_info),
     original_url |-> url]

\* the dict appended for a single video: it has no playlist_title key
VideoItem(video_info, url) ==
    [artist |-> ArtistName(video_info), title |-> TrackTitle(video_info),
     is_playlist |-> FALSE, playlist_title |-> Absent, original_url |-> url]

\* entries = list(info['entries']); a value that is not iterable gives []
EntryList(playlist_info) ==
    IF playlist_info.entries.tag = "list" THEN playlist_info.entries.l ELSE <<>>

(***************************************************************************)
(* discord-bot.showmusic: the lines it renders                             *)
(***************************************************************************)
PlaylistLabel ==
    <<"*","*","P","l","a","y","l","i","s","t",":","*","*"," ">>
FoundLabel ==
    <<"*","*","F","o","u","n","d"," ">>
EntriesLabel ==
    <<" ","e","n","t","r","i","e","s",":","*","*">>
TruncationMarker ==
    <<".",".","."," ","(","t","r","u","n","c","a","t","e","d",")">>
ArtistLabel ==
    <<"*","*","A","r","t","i","s","t",":","*","*"," ">>
TitleLabel ==
    <<"*","*","T","i","t","l","e",":","*","*"," ">>
CouldNotExtract ==
    <<"C","o","u","l","d"," ","n","o","t"," ","e","x","t","r","a","c","t",
      " ","i","n","f","o","r","m","a","t","i","o","n","."," ","I","n","v",
      "a","l","i","d"," ","U","R","L"," ","o","r"," ","p","r","i","v","a",
      "t","e"," ","v","i","d","e","o",".">>

Newline == <<"\n">>

\* "\n".join(message_lines)
JoinLines(lines) == Join(Newline, lines)

\* f"**Playlist:** {playlist_title}"
PlaylistLine(report) == PlaylistLabel \o PyStr(Get(report[1].playlist_title))

\* f"**Found {len(data)} entries:**"
FoundLine(report) == FoundLabel \o Digits(Len(report)) \o EntriesLabel

\* f"{i}. {item['title']} - {item['artist']}"
ItemLine(i, item) ==
    Digits(i) \o <<".", " ">> \o PyStr(item.title) \o <<" ", "-", " ">>
              \o PyStr(item.artist)

\* ExceedsBudget with the joining newline left out of the count
ExceedsBudgetNoNewline(lines, line) == Len(JoinLines(lines) \o line) > Budget

\* len("\n".join(message_lines) + "\n" + line) > 1900
ExceedsBudget(lines, line) == Len(JoinLines(lines) \o Newline \o line) > Budget

(***************************************************************************)
(* State                                                                   *)
(***************************************************************************)
VARIABLES
    raw,        \* the info dict as the extractor produced it
    info,       \* the info dict the match filter mutates in place
    outs,       \* one outcome per call of normalize_metadata on info
    source,     \* per get_video_info call: what extract_info returned
    extracted,  \* per call: the info dict of the call, as it is now
    entries,    \* per call: the local list entries
    entry_index,\* per call: position of the for loop over entries
    results,    \* per call: the local list results
    returned,   \* per call: the value returned
    pc,         \* per call: where the call stands
    playlist_total_items,   \* the module-level counter of main.py
    data,           \* showmusic: the report get_video_info returned
    message_lines,  \* showmusic: the lines collected so far
    item_index,     \* showmusic: position of the loop over data
    response_text,  \* showmusic: the text sent with status_msg.edit
    sm_pc,          \* showmusic: where the command stands
    da_pc,      \* per download_audio call: where the call stands
    da_count,   \* per download_audio call: the local count
    hook        \* per download_audio call: the last progress_hook call

normVars == <<raw, info, outs>>

gvVars == <<source, extracted, entries, entry_index, results, returned, pc>>

smVars == <<data, message_lines, item_index, response_text, sm_pc>>

dlVars == <<da_pc, da_count, hook>>

vars == <<raw, info, outs, source, extracted, entries, entry_index, results,
          returned, pc, playlist_total_items, data, message_lines, item_index,
          response_text, sm_pc, da_pc, da_count, hook>>

\* the concurrent calls: get_video_info from two showmusic commands, or
\* download_audio from two tomp3 commands, in executor threads; the url of
\* call p is p
Procs == {1, 2}

\* no get_video_info call is under way
GvIdle ==
    /\ source = [p \in Procs |-> None]
    /\ extracted = [p \in Procs |-> None]
    /\ entries = [p \in Procs |-> <<>>]
    /\ entry_index = [p \in Procs |-> 1]
    /\ results = [p \in Procs |-> <<>>]
    /\ returned = [p \in Procs |-> <<>>]
    /\ pc = [p \in Procs |-> "start"]

\* no download_audio call is under way
DlIdle ==
    /\ da_pc = [p \in Procs |-> "start"]
    /\ da_count = [p \in Procs |-> None]
    /\ hook = [p \in Procs |-> None]

\* no showmusic command is under way
SmIdle ==
    /\ data = <<>>
    /\ message_lines = <<>>
    /\ item_index = 1
    /\ response_text = <<>>
    /\ sm_pc = "start"

(***************************************************************************)
(* The raw records Init draws from                                         *)
(***************************************************************************)
\* every string over alphabet of length at most n
Strings(alphabet, n) == UNION {[1..k -> alphabet] : k \in 0..n}

\* every sequence over elems of length lo..hi
SeqsOf(elems, lo, hi) == UNION {[1..k -> elems] : k \in lo..hi}

TrackAlphabet == {"a", "A", "b", " ", "-"}

\* longer tracks: a multi-name artist or the sentinel followed by a tail
TrackPrefixes == {<<"a", " ", "&", " ", "b">>, <<"A", " ", "&", " ", "B">>,
                  UnknownArtist}

TrackStrings ==
    Strings(TrackAlphabet, MaxLen)
    \cup {p \o s : p \in TrackPrefixes, s \in Strings({"-", "c", " "}, MaxLen - 1)}

\* track values that are falsy, so that the title is read
EmptyTracks == {Absent, None, Str(<<>>), IntVal(0), List(<<>>)}

TrackVals ==
    {IntVal(12), List(<< <<"a">> >>)} \cup {Str(s) : s \in TrackStrings \ {<<>>}}

TitleVals == {Absent, None, Str(<<>>), Str(<<"a", "-", "b">>), IntVal(12)}

\* artist / uploader pairs of the records that vary the track
TrackSideSources ==
    {[artist |-> a, uploader |-> Absent] :
        a \in {Str(<<"a">>), Str(<<"a", ",", "b">>), Str(UnknownArtist),
               Str(<<"1">>), Str(<<"n">>), List(<< <<"a", ",", "a">> >>)}}
    \cup {[artist |-> Absent, uploader |-> Str(<<"A">>)],
          [artist |-> Absent, uploader |-> Absent]}

\* the title is read only when the track is falsy
TrackSideRecords ==
    {[artist |-> src.artist, uploader |-> src.uploader, track |-> t, title |-> Absent] :
        src \in TrackSideSources, t \in TrackVals}
    \cup
    {[artist |-> src.artist, uploader |-> src.uploader, track |-> t, title |-> ti] :
        src \in TrackSideSources, t \in EmptyTracks, ti \in TitleVals}

\* the pieces artist strings and lists are put together from
NameParts == {<<>>, <<"a">>, <<" ", "A">>, <<"b">>, <<"c">>, <<"d", " ">>}
ListElems == {<<>>, <<"a">>, <<"A", " ">>, <<"b">>, <<"c">>, <<"a", ",", "b">>}

\* artist values that are falsy, so that the uploader is read
EmptyArtists == {Absent, None, Str(<<>>), IntVal(0), List(<<>>)}

\* comma-separated strings of up to ArtistCap + 2 names, lists of up to
\* ArtistCap + 1 elements, and a number
ArtistVals ==
    {IntVal(7)}
    \cup ({Str(Join(<<",">>, ps)) : ps \in SeqsOf(NameParts, 1, ArtistCap + 2)}
             \ {Str(<<>>)})
    \cup {List(l) : l \in SeqsOf(ListElems, 1, ArtistCap + 1)}

UploaderVals ==
    {Absent, None, Str(<<>>), Str(<<"b", ",", " ", "B">>), IntVal(5),
     List(<< <<"b">>, <<"B">> >>)}

\* the records that vary the artist source; the uploader is read only when
\* the artist is falsy
ArtistSideRecords ==
    {[artist |-> a, uploader |-> Absent, track |-> Absent,
      title |-> Str(<<"a", " ", "b">>)] : a \in ArtistVals}
    \cup
    {[artist |-> a, uploader |-> u, track |-> Absent,
      title |-> Str(<<"a", " ", "b">>)] : a \in EmptyArtists, u \in UploaderVals}

RawRecords == TrackSideRecords \cup ArtistSideRecords

(***************************************************************************)
(* The match filter: yt-dlp calls normalize_metadata on the info dict,     *)
(* which the call mutates in place; a later call reads what it wrote.      *)
(***************************************************************************)
Outcome(r) == [artist |-> r.info.artist, track |-> r.info.track, raised |-> r.raised]

\* the last call raised: the exception leaves the filter
Raised == outs # <<>> /\ outs[Len(outs)].raised

Init ==
    /\ raw \in RawRecords
    /\ info = raw
    /\ outs = <<>>
    /\ GvIdle
    /\ playlist_total_items = 0
    /\ SmIdle
    /\ DlIdle

Normalize ==
    /\ Len(outs) < MaxCalls
    /\ ~Raised
    /\ LET r == normalize_metadata(info)
       IN  /\ info' = r.info
           /\ outs' = Append(outs, Outcome(r))
    /\ UNCHANGED <<raw, gvVars, playlist_total_items, smVars, dlVars>>

Next == Normalize

Spec == Init /\ [][Next]_vars

(***************************************************************************)
(* main.get_video_info, one step at a time, and the counter that           *)
(* main.download_audio writes                                              *)
(***************************************************************************)
EmptyRecord == [artist |-> Absent, uploader |-> Absent, track |-> Absent, title |-> Absent]

\* the raw records the extractor hands out: one whose title repeats the
\* uploader, one whose track is a number that begins like the artist, one
\* with an empty title
EntryRecords ==
    {[EmptyRecord EXCEPT !.uploader = Str(<<"A">>), !.title = Str(<<"a", "-", "b">>)],
     [EmptyRecord EXCEPT !.artist = Str(<<"1">>), !.track = IntVal(12)],
     [EmptyRecord EXCEPT !.title = Str(<<>>)]}

PlaylistTitles == {Absent, None, Str(<<"p">>)}

\* info of a playlist: it has the key 'entries'
PlaylistInfo(es, title) ==
    [tag |-> "dict", entries |-> es, artist |-> Absent, uploader |-> Absent,
     track |-> Absent, title |-> title]

\* info of a single video: no key 'entries'
VideoInfo(rec) ==
    [tag |-> "dict", entries |-> Absent, artist |-> rec.artist,
     uploader |-> rec.uploader, track |-> rec.track, title |-> rec.title]

\* extract_info raised
ExtractFailed == [tag |-> "raises"]

\* what ydl.extract_info(url, download=False) may do: raise, return None,
\* return a playlist (entries a list of up to MaxEntries records, or a value
\* that cannot be listed) or return a single video
ExtractorResults ==
    {ExtractFailed, None}
    \cup {PlaylistInfo([tag |-> "list", l |-> es], Str(<<"p">>)) :
            es \in SeqsOf(EntryRecords, 0, MaxEntries)}
    \cup {PlaylistInfo([tag |-> "list", l |-> es], ti) :
            es \in SeqsOf(EntryRecords, 0, 1), ti \in PlaylistTitles}
    \cup {PlaylistInfo(None, Str(<<"p">>))}
    \cup {VideoInfo(rec) : rec \in EntryRecords}

\* results as if it were one module-level list shared by every call
ResultsShared(p) == results[CHOOSE q \in Procs : \A o \in Procs : q <= o]

\* the list results of call p, a local of the call
Results(p) == results[p]

\* lines 257-268: extract_info, `if not info: return []`, and the branch on
\* 'entries'; an exception leaves through `except Exception: return []`
GviExtract(p) ==
    /\ pc[p] = "start"
    /\ \E r \in ExtractorResults :
        /\ source' = [source EXCEPT ![p] = r]
        /\ extracted' = [extracted EXCEPT ![p] = r]
        /\ IF r.tag # "dict"
           THEN /\ returned' = [returned EXCEPT ![p] = <<>>]
                /\ pc' = [pc EXCEPT ![p] = "done"]
                /\ UNCHANGED entries
           ELSE IF r.entries # Absent
           THEN /\ entries' = [entries EXCEPT ![p] = EntryList(r)]
                /\ pc' = [pc EXCEPT ![p] = "loop"]
                /\ UNCHANGED returned
           ELSE /\ pc' = [pc EXCEPT ![p] = "single"]
                /\ UNCHANGED <<entries, returned>>
    /\ UNCHANGED <<entry_index, results, normVars, playlist_total_items, smVars, dlVars>>

\* lines 270-291: one iteration of the loop; the entry is copied, the copy
\* normalised, the item appended; an exception ends the call with []
GviEntry(p) ==
    /\ pc[p] = "loop"
    /\ entry_index[p] <= Len(entries[p])
    /\ LET r == normalize_metadata(entries[p][entry_index[p]])
       IN  IF r.raised
           THEN /\ returned' = [returned EXCEPT ![p] = <<>>]
                /\ pc' = [pc EXCEPT ![p] = "done"]
                /\ UNCHANGED <<results, entry_index>>
           ELSE /\ results' = [results EXCEPT ![p] =
                                  Append(Results(p), PlaylistItem(r.info, extracted[p], p))]
                /\ entry_index' = [entry_index EXCEPT ![p] = @ + 1]
                /\ UNCHANGED <<returned, pc>>
    /\ UNCHANGED <<source, extracted, entries, normVars, playlist_total_items, smVars, dlVars>>

\* lines 295-310: the single video; info itself is normalised in place
GviSingle(p) ==
    /\ pc[p] = "single"
    /\ LET r == normalize_metadata(extracted[p])
       IN  /\ extracted' = [extracted EXCEPT ![p] = r.info]
           /\ IF r.raised
              THEN /\ returned' = [returned EXCEPT ![p] = <<>>]
                   /\ pc' = [pc EXCEPT ![p] = "done"]
                   /\ UNCHANGED results
              ELSE /\ results' = [results EXCEPT ![p] =
                                     Append(Results(p), VideoItem(r.info, p))]
                   /\ pc' = [pc EXCEPT ![p] = "return"]
                   /\ UNCHANGED returned
    /\ UNCHANGED <<source, entries, entry_index, normVars, playlist_total_items, smVars, dlVars>>

\* the loop over entries has ended, or the single video is done
AtReturn(p) ==
    IF pc[p] = "loop" THEN entry_index[p] > Len(entries[p]) ELSE pc[p] = "return"

\* line 312: return results
GviReturn(p) ==
    /\ AtReturn(p)
    /\ returned' = [returned EXCEPT ![p] = Results(p)]
    /\ pc' = [pc EXCEPT ![p] = "done"]
    /\ UNCHANGED <<source, extracted, entries, entry_index, results, normVars,
                   playlist_total_items, smVars, dlVars>>

\* what get_playlist_info may return to download_audio: None or a count
PlaylistCounts == {None, IntVal(0), IntVal(1), IntVal(3), IntVal(120)}

\* download_audio, lines 177-183, running in another executor thread: the
\* count of the playlist, or 0, is written to the module-level counter
DownloadAudioCount ==
    /\ \E count \in PlaylistCounts :
        playlist_total_items' =
            IF Truthy(count) /\ count.n > 1 THEN count.n ELSE 0
    /\ UNCHANGED <<gvVars, normVars, smVars, dlVars>>

InitInfo ==
    /\ raw = EmptyRecord
    /\ info = EmptyRecord
    /\ outs = <<>>
    /\ GvIdle
    /\ playlist_total_items = 0
    /\ SmIdle
    /\ DlIdle

NextInfo ==
    \/ \E p \in Procs : GviExtract(p)
    \/ \E p \in Procs : GviEntry(p)
    \/ \E p \in Procs : GviSingle(p)
    \/ \E p \in Procs : GviReturn(p)
    \/ DownloadAudioCount

SpecInfo == InitInfo /\ [][NextInfo]_vars

(***************************************************************************)
(* discord-bot.showmusic, one step at a time                               *)
(***************************************************************************)
\* the string of n characters c
Rep(c, n) == [i \in 1..n |-> c]

\* titles of 1 and 600 characters, the title that fills the budget exactly
\* as the first item of a playlist titled "p", and the one a character longer
ItemTitles ==
    {Str(Rep("x", 1)), Str(Rep("x", 600)), Str(Rep("x", Budget - 44)),
     Str(Rep("x", Budget - 43))}

\* a short playlist title, and one as long as the budget
ReportPlaylistTitles == {Str(<<"p">>), Str(Rep("p", Budget))}

\* the reports get_video_info hands to showmusic: nothing, a single video,
\* or a playlist of up to MaxItems items
Reports ==
    {<<>>}
    \cup {<<[artist |-> Str(<<"a">>), title |-> ti, is_playlist |-> FALSE,
            playlist_title |-> Absent, original_url |-> 1]>> : ti \in ItemTitles}
    \cup {[i \in 1..n |->
              [artist |-> Str(<<"a">>), title |-> tis[i], is_playlist |-> TRUE,
               playlist_title |-> pt, original_url |-> 1]] :
            n \in 1..MaxItems, tis \in [1..MaxItems -> ItemTitles],
            pt \in ReportPlaylistTitles}

\* lines 99-103: data = get_video_info(url); nothing to show ends the command
ShowFetch ==
    /\ sm_pc = "start"
    /\ \E report \in Reports :
        /\ data' = report
        /\ IF report = <<>>
           THEN response_text' = CouldNotExtract /\ sm_pc' = "done"
           ELSE sm_pc' = "lines" /\ UNCHANGED response_text
    /\ UNCHANGED <<message_lines, item_index, normVars, gvVars, playlist_total_items, dlVars>>

\* lines 106-109: the two header lines of a playlist
ShowHeader ==
    /\ sm_pc = "lines"
    /\ data[1].is_playlist
    /\ message_lines' = <<PlaylistLine(data), FoundLine(data)>>
    /\ item_index' = 1
    /\ sm_pc' = "loop"
    /\ UNCHANGED <<data, response_text, normVars, gvVars, playlist_total_items, dlVars>>

\* lines 111-116: one iteration of the loop over the items
ShowItem ==
    /\ sm_pc = "loop"
    /\ item_index <= Len(data)
    /\ LET line == ItemLine(item_index, data[item_index])
       IN  IF ExceedsBudget(message_lines, line)
           THEN /\ message_lines' = Append(message_lines, TruncationMarker)
                /\ sm_pc' = "reply"
                /\ UNCHANGED item_index
           ELSE /\ message_lines' = Append(message_lines, line)
                /\ item_index' = item_index + 1
                /\ UNCHANGED sm_pc
    /\ UNCHANGED <<data, response_text, normVars, gvVars, playlist_total_items, dlVars>>

\* lines 118-122: a single video; the items of get_video_info have no album
ShowSingle ==
    /\ sm_pc = "lines"
    /\ ~data[1].is_playlist
    /\ message_lines' = <<ArtistLabel \o PyStr(data[1].artist),
                          TitleLabel \o PyStr(data[1].title)>>
    /\ sm_pc' = "reply"
    /\ UNCHANGED <<data, item_index, response_text, normVars, gvVars,
                   playlist_total_items, dlVars>>

\* the loop has ended or was left, or the single video is rendered
AtReply == IF sm_pc = "loop" THEN item_index > Len(data) ELSE sm_pc = "reply"

\* lines 128-129: the lines are joined and sent
ShowReply ==
    /\ AtReply
    /\ response_text' = JoinLines(message_lines)
    /\ sm_pc' = "done"
    /\ UNCHANGED <<data, message_lines, item_index, normVars, gvVars,
                   playlist_total_items, dlVars>>

InitShow == InitInfo

NextShow == ShowFetch \/ ShowHeader \/ ShowItem \/ ShowSingle \/ ShowReply

SpecShow == InitShow /\ [][NextShow]_vars

(***************************************************************************)
(* main.download_audio and main.progress_hook, one step at a time; the     *)
(* calls of Procs are two tomp3 commands in executor threads               *)
(***************************************************************************)
\* lines 177-183: the value download_audio writes to the module-level counter
TotalItems(count) == IF Truthy(count) /\ count.n > 1 THEN count.n ELSE 0

\* the dicts the downloader hands to progress_hook: the keys the hook reads
ProgressDicts ==
    {[status |-> "downloading", playlist_index |-> pi, n_entries |-> ne] :
        pi \in {Absent, IntVal(2)}, ne \in {Absent, None, IntVal(7)}}
    \cup {[status |-> "finished", playlist_index |-> Absent, n_entries |-> Absent]}

\* n_entries read from the dict alone, without the fallback
NEntriesOfDict(d) == Get(d.n_entries)

\* line 47: n_entries = d.get('n_entries') or playlist_total_items
NEntries(d) ==
    IF Truthy(Get(d.n_entries)) THEN Get(d.n_entries)
    ELSE IntVal(playlist_total_items)

DownloadingLabel == <<"D","o","w","n","l","o","a","d","i","n","g">>
CompleteLine ==
    <<"D","o","w","n","l","o","a","d"," ","c","o","m","p","l","e","t","e">>

\* lines 49-54 and 59: what is printed, without percent, ETA and speed
ProgressLine(d) ==
    IF d.status = "finished" THEN CompleteLine
    ELSE IF Truthy(Get(d.playlist_index)) /\ Truthy(NEntries(d))
    THEN DownloadingLabel \o <<" ">> \o PyStr(Get(d.playlist_index))
             \o <<"/">> \o PyStr(NEntries(d))
    ELSE DownloadingLabel \o <<":">>

\* one call of progress_hook: the dict, the local n_entries and the line
HookCall(d) ==
    [d |-> d,
     n_entries |-> IF d.status = "downloading" THEN NEntries(d) ELSE None,
     line |-> ProgressLine(d)]

\* lines 161-173: the download folder; os.makedirs may fail, and the call
\* then returns [] before the counter is touched
DaStart(p) ==
    /\ da_pc[p] = "start"
    /\ \E made \in BOOLEAN :
        da_pc' = [da_pc EXCEPT ![p] = IF made THEN "check" ELSE "failed"]
    /\ UNCHANGED <<da_count, hook, playlist_total_items, normVars, gvVars, smVars>>

\* line 176: count = get_playlist_info(url)
DaCheck(p) ==
    /\ da_pc[p] = "check"
    /\ \E count \in PlaylistCounts : da_count' = [da_count EXCEPT ![p] = count]
    /\ da_pc' = [da_pc EXCEPT ![p] = "write"]
    /\ UNCHANGED <<hook, playlist_total_items, normVars, gvVars, smVars>>

\* lines 177-182: the counter is written before the download starts
DaWrite(p) ==
    /\ da_pc[p] = "write"
    /\ playlist_total_items' = TotalItems(da_count[p])
    /\ da_pc' = [da_pc EXCEPT ![p] = "download"]
    /\ UNCHANGED <<da_count, hook, normVars, gvVars, smVars>>

\* line 218: while ydl.download runs in the thread of call p, the downloader
\* calls progress_hook any number of times
ProgressHook(p) ==
    /\ da_pc[p] = "download"
    /\ \E d \in ProgressDicts : hook' = [hook EXCEPT ![p] = HookCall(d)]
    /\ UNCHANGED <<da_pc, da_count, playlist_total_items, normVars, gvVars, smVars>>

\* lines 220-238: ydl.download has returned and the call returns its files
DaReturn(p) ==
    /\ da_pc[p] = "download"
    /\ da_pc' = [da_pc EXCEPT ![p] = "done"]
    /\ UNCHANGED <<da_count, hook, playlist_total_items, normVars, gvVars, smVars>>

InitDownload == InitInfo

NextDownload ==
    \/ \E p \in Procs : DaStart(p)
    \/ \E p \in Procs : DaCheck(p)
    \/ \E p \in Procs : DaWrite(p)
    \/ \E p \in Procs : ProgressHook(p)
    \/ \E p \in Procs : DaReturn(p)

SpecDownload == InitDownload /\ [][NextDownload]_vars

(***************************************************************************)
(* Claims about normalize_metadata, read on the first and second call      *)
(***************************************************************************)
\* the first call has returned without raising
Normalized == outs # <<>> /\ ~outs[1].raised

\* the artist string the first call wrote
OutArtist == outs[1].artist.s

\* the track value the first call wrote
OutTrack == outs[1].track

\* v is a string that starts with the name a, compared case-insensitively
BeginsWithArtist(v, a) == v.tag = "str" /\ StartsWith(Lower(v.s), Lower(a))

\* what is left of the string s after the first n characters and the
\* leading separators are removed
Remainder(s, n) == LStrip(Drop(s, n), Separators)

\* C1: normalize_metadata is idempotent on artist and track: a second call
\* on the record the first call produced writes the same artist and the
\* same track.
C1_Idempotent ==
    (Len(outs) >= 2 /\ ~outs[2].raised) =>
        /\ outs[2].artist = outs[1].artist
        /\ outs[2].track = outs[1].track

\* C2: when the resulting artist is not "Unknown Artist", the written track
\* does not start with the artist (case-insensitively), except when removing
\* the prefix and the separators would leave only whitespace, and then the
\* track is the starting track unchanged.
C2_TrackNotPrefixed ==
    (Normalized /\ OutArtist # UnknownArtist) =>
        \/ ~BeginsWithArtist(OutTrack, OutArtist)
        \/ /\ Strip(Remainder(OutTrack.s, Len(OutArtist))) = <<>>
           /\ OutTrack = StartingTrack(raw)

\* the starting track is a string that begins with the resulting artist
\* and has a non-blank remainder
C3_Applies ==
    /\ Normalized
    /\ BeginsWithArtist(StartingTrack(raw), OutArtist)
    /\ Strip(Remainder(StartingTrack(raw).s, Len(OutArtist))) # <<>>

\* C3 as stated: in that case the written track is the starting track with
\* the first len(artist) characters removed, the leading separators removed
\* and the surrounding whitespace removed.  Read for artists other than the
\* sentinel, the only ones the code strips for.
C3_Original ==
    (C3_Applies /\ OutArtist # UnknownArtist) =>
        OutTrack = Str(Strip(Remainder(StartingTrack(raw).s, Len(OutArtist))))

\* C3 (amended): when the resulting artist is not "Unknown Artist" and the
\* starting track is a string that begins case-insensitively with it and has
\* a non-blank remainder, the written track is the starting track with the
\* first len(artist) characters removed and the leading characters from
\* {space, '-', ':', '|'} removed; nothing else is removed, so trailing
\* whitespace stays.
C3_PrefixRemoved ==
    (C3_Applies /\ OutArtist # UnknownArtist) =>
        OutTrack = Str(Remainder(StartingTrack(raw).s, Len(OutArtist)))

\* the prefix was removed and the written track still ends in whitespace
C3_Witness ==
    /\ C3_Applies
    /\ OutArtist # UnknownArtist
    /\ OutTrack # StartingTrack(raw)
    /\ OutTrack.s # Strip(OutTrack.s)

\* the artist source of the raw record: the artist field if non-empty, else
\* the uploader field
C4_Source ==
    IF raw.artist \notin {Absent, None, Str(<<>>), List(<<>>), IntVal(0)}
    THEN raw.artist
    ELSE Get(raw.uploader)

\* the candidates of the source, trimmed
C4_Trimmed ==
    LET cands == CASE C4_Source.tag = "str" -> Split(C4_Source.s, ",")
                   [] C4_Source.tag = "list" -> C4_Source.l
                   [] C4_Source.tag = "int" /\ C4_Source.n # 0 ->
                          <<Digits(C4_Source.n)>>
                   [] OTHER -> <<>>
    IN  [i \in 1..Len(cands) |-> Strip(cands[i])]

\* positions of the non-empty candidates in tr that no earlier candidate
\* equals case-insensitively
C4_Survivors(tr) ==
    LET low == [i \in 1..Len(tr) |-> Lower(tr[i])]
    IN  {i \in 1..Len(tr) : tr[i] # <<>> /\ \A j \in 1..(i - 1) : low[j] # low[i]}

\* the first 3 of the positions surv
C4_Kept(surv) == {i \in surv : Cardinality({j \in surv : j < i}) < 3}

\* the names of tr at the positions kept, in order
C4_Names(tr, kept) ==
    [k \in 1..Cardinality(kept) |->
        tr[CHOOSE i \in kept : Cardinality({j \in kept : j < i}) = k - 1]]

\* the artist the claim describes for the raw record
C4_Expected ==
    LET tr == C4_Trimmed
        kept == C4_Kept(C4_Survivors(tr))
    IN  IF kept = {} THEN UnknownArtist ELSE Join(ArtistSep, C4_Names(tr, kept))

\* C4 (amended): the written artist is the first 3 surviving candidates
\* joined with " & ", where the candidates come from the artist field if
\* non-empty, else the uploader field (a string split on commas, a list
\* element by element, any other value stringified as one candidate), are
\* trimmed, and survive when non-empty and not a case-insensitive repeat of
\* an earlier one; it is "Unknown Artist" whenever no candidate survives.
C4_ArtistBuilt == outs # <<>> => OutArtist = C4_Expected

\* C4 as stated: moreover the artist is "Unknown Artist" exactly when no
\* candidate survives.
C4_Original ==
    outs # <<>> =>
        /\ OutArtist = C4_Expected
        /\ (OutArtist = UnknownArtist) <=> (C4_Survivors(C4_Trimmed) = {})

\* a comma-separated source with a name repeated in another case and more
\* than 3 survivors has been normalised
C4_Witness ==
    /\ outs # <<>>
    /\ C4_Source.tag = "str"
    /\ LET tr == C4_Trimmed
       IN  /\ Cardinality(C4_Survivors(tr)) > 3
           /\ \E i, j \in 1..Len(tr) :
                 i < j /\ tr[i] # tr[j] /\ Lower(tr[i]) = Lower(tr[j])

\* a field as the data model of the specification has it: missing, null or
\* a string
OptionalString(v) == v.tag \in {"absent", "none", "str"}

\* C5: the written track is a non-empty string: it starts from the track
\* field when non-empty, else from the title field when non-empty, and is
\* the sentinel "Unknown Track" when neither is (also when the title key is
\* present but empty or null).  Stated for records whose track and title
\* are missing, null or strings.
C5_TrackNonEmpty ==
    (Normalized /\ OptionalString(raw.track) /\ OptionalString(raw.title)) =>
        /\ OutTrack.tag = "str"
        /\ OutTrack.s # <<>>
        /\ (~Truthy(raw.track) /\ ~Truthy(raw.title)) => OutTrack = Str(UnknownTrack)

\* C6: normalize_metadata never raises, whatever the shape of the record.
C6_NeverRaises == \A i \in 1..Len(outs) : ~outs[i].raised

(***************************************************************************)
(* Claims about get_video_info                                             *)
(***************************************************************************)
\* the raw records of an extractor result: the entries of a playlist, the
\* video itself otherwise
RecordsOf(src) == IF src.entries # Absent THEN EntryList(src) ELSE <<src>>

\* C8: get_video_info returns exactly one item per raw record, in the
\* extractor's order, each holding the artist and the track that
\* normalize_metadata produces for the record; no record, no item.
C8_OneItemPerRecord ==
    \A p \in Procs :
        (pc[p] = "done" /\ source[p].tag = "dict") =>
            /\ Len(returned[p]) = Len(RecordsOf(source[p]))
            /\ \A i \in 1..Len(returned[p]) :
                  LET r == normalize_metadata(RecordsOf(source[p])[i])
                  IN  /\ returned[p][i].artist = r.info.artist
                      /\ returned[p][i].title = r.info.track

\* C9: in a returned report a playlist title is present exactly on the items
\* marked is_playlist: with an entries collection every item is marked and
\* carries the playlist-level title, "Unknown Playlist" when the extractor
\* gave none; without one the single item is unmarked and has no title.
C9_PlaylistTitle ==
    \A p \in Procs :
        pc[p] = "done" =>
            \A i \in 1..Len(returned[p]) :
                LET item == returned[p][i]
                IN  /\ (item.playlist_title # Absent) <=> item.is_playlist
                    /\ IF source[p].entries # Absent
                       THEN /\ item.is_playlist
                            /\ item.playlist_title =
                                  IF source[p].title = Absent
                                  THEN Str(UnknownPlaylist)
                                  ELSE source[p].title
                       ELSE /\ ~item.is_playlist
                            /\ item.playlist_title = Absent
                            /\ Len(returned[p]) = 1

\* one call returned a playlist whose title the extractor did not give, the
\* other a single video
C9_Witness ==
    \E p, q \in Procs :
        /\ pc[p] = "done" /\ pc[q] = "done"
        /\ returned[p] # <<>> /\ returned[q] # <<>>
        /\ source[p].entries # Absent /\ source[p].title = Absent
        /\ source[q].entries = Absent

\* the report of a call that runs alone on the extractor result src
ReportAlone(src, url) ==
    IF src.tag # "dict" THEN <<>>
    ELSE IF src.entries # Absent
    THEN LET es == IF src.entries.tag = "list" THEN src.entries.l ELSE <<>>
         IN  IF \E i \in 1..Len(es) : normalize_metadata(es[i]).raised
             THEN <<>>
             ELSE [i \in 1..Len(es) |->
                      PlaylistItem(normalize_metadata(es[i]).info, src, url)]
    ELSE IF normalize_metadata(src).raised THEN <<>>
         ELSE <<VideoItem(normalize_metadata(src).info, url)>>

\* what call p has returned is what it returns when run alone, and a
\* playlist's info dict and entries are as the extractor made them
IsolatedResult ==
    \A p \in Procs :
        pc[p] = "done" =>
            /\ returned[p] = ReportAlone(source[p], p)
            /\ (source[p].tag = "dict" /\ source[p].entries # Absent) =>
                   extracted[p] = source[p]

\* C10: concurrent get_video_info calls do not interfere: whatever the
\* interleaving, and while download_audio rewrites playlist_total_items,
\* each call returns what it returns alone, each playlist entry is
\* normalised on a copy, and no step of a call writes playlist_total_items.
C10_NoInterference ==
    /\ []IsolatedResult
    /\ [][(\E p \in Procs : pc'[p] # pc[p]) =>
             playlist_total_items' = playlist_total_items]_vars

\* one call has returned a two-item playlist while the other is inside its
\* loop and the counter has been rewritten by a download
C10_Witness ==
    \E p, q \in Procs :
        /\ pc[p] = "done" /\ Len(returned[p]) = 2
        /\ pc[q] = "loop" /\ results[q] # <<>>
        /\ playlist_total_items # 0

(***************************************************************************)
(* Claims about showmusic                                                  *)
(***************************************************************************)
\* a playlist report has been rendered and sent
PlaylistRendered == sm_pc = "done" /\ data # <<>> /\ data[1].is_playlist

\* the header lines followed by the lines of the first n items
RenderedUpTo(n) ==
    <<PlaylistLine(data), FoundLine(data)>>
    \o [k \in 1..n |-> ItemLine(k, data[k])]

\* the rendered lines are the header, the complete lines of the first n
\* items in report order, and the marker as the last line exactly when an
\* item was left out
RenderedPrefix(n) ==
    /\ message_lines =
          RenderedUpTo(n) \o (IF n < Len(data) THEN <<TruncationMarker>> ELSE <<>>)
    /\ response_text = JoinLines(message_lines)

\* C7 as stated: the rendered text is the header, a prefix of the item
\* lines, each complete, and one marker line exactly when an item was left
\* out; and its total length, marker included, never exceeds the budget.
\* Read for reports whose two header lines fit the budget by themselves.
C7_Original ==
    (PlaylistRendered /\ Len(JoinLines(RenderedUpTo(0))) <= 1900) =>
        /\ \E n \in 0..Len(data) : RenderedPrefix(n)
        /\ Len(response_text) <= 1900

\* C7 (amended): the rendered text is the header, a prefix of the item
\* lines, each complete, and one marker line exactly when an item was left
\* out.  The budget is applied to the item lines only: the text up to the
\* last item line rendered is within 1900 characters when at least one item
\* line was rendered, an item is left out only when its line would pass the
\* budget, and the marker is appended uncounted, so that the whole text is
\* at most 16 characters longer (the marker and its newline).
C7_Truncation ==
    PlaylistRendered =>
        \E n \in 0..Len(data) :
            /\ RenderedPrefix(n)
            /\ n >= 1 => Len(JoinLines(RenderedUpTo(n))) <= 1900
            /\ n < Len(data) => Len(JoinLines(RenderedUpTo(n + 1))) > 1900
            /\ Len(response_text) <= Len(JoinLines(RenderedUpTo(n))) + 16

\* a playlist was cut after at least one item line, and the text sent is
\* longer than the budget
C7_Witness ==
    /\ PlaylistRendered
    /\ Len(message_lines) > 3
    /\ message_lines[Len(message_lines)] = TruncationMarker
    /\ Len(response_text) > 1900

(***************************************************************************)
(* Claims about download_audio and progress_hook under concurrent calls    *)
(***************************************************************************)
\* call p has written the counter
HasWritten(p) == da_pc[p] \in {"download", "done"}

\* the last progress_hook call of p fell back to the counter for n_entries
FellBack(h) ==
    /\ h # None
    /\ h.d.status = "downloading"
    /\ ~Truthy(Get(h.d.n_entries))

\* the total the hook of p fell back to is the count some call has written
TotalOfSomeCall ==
    \A p \in Procs :
        FellBack(hook[p]) =>
            \E q \in Procs :
                /\ HasWritten(q)
                /\ hook[p].n_entries = IntVal(TotalItems(da_count[q]))

\* a hook call that falls back reads the counter as it stands at that moment
ReadsSharedCounter ==
    \A p \in Procs :
        (hook'[p] # hook[p] /\ FellBack(hook'[p])) =>
            hook'[p].n_entries = IntVal(playlist_total_items)

\* C11: download_audio is not safe under concurrent calls: every call writes
\* the process-wide playlist_total_items before it downloads, and a
\* progress_hook call whose dict has no n_entries takes its total from that
\* counter as it stands, so the total of one download is the count written
\* by whichever call wrote last, its own or the other one's (C11_Witness is
\* the interleaving in which it is the other one's)
C11_SharedCounterTotal == []TotalOfSomeCall /\ [][ReadsSharedCounter]_vars

\* C11, the interleaving: call p downloads a playlist and its hook prints,
\* as the total, the different count that the other call wrote
C11_Witness ==
    \E p \in Procs : \E q \in Procs \ {p} :
        /\ HasWritten(q)
        /\ TotalItems(da_count[p]) > 1
        /\ TotalItems(da_count[q]) > 1
        /\ TotalItems(da_count[q]) # TotalItems(da_count[p])
        /\ FellBack(hook[p])
        /\ hook[p].n_entries = IntVal(TotalItems(da_count[q]))
        /\ hook[p].line = DownloadingLabel \o <<" ">> \o PyStr(hook[p].d.playlist_index)
                            \o <<"/">> \o Digits(TotalItems(da_count[q]))

=============================================================================
